---- MODULE Spec2Model ----
(***************************************************************************)
(* The signed request pipeline of cryptomkt-rs: Api (src/internal/api.rs)  *)
(* and the live transport CryptoMktRequest (src/internal/request.rs).      *)
(*                                                                         *)
(* A string is a sequence of one-character strings.  Two atoms stand for   *)
(* longer or unprintable text: the origin "https://api.cryptomkt.com" of   *)
(* the domain, and "LF" for a line feed byte.                              *)
(***************************************************************************)
EXTENDS Integers, Sequences, FiniteSets

VARIABLES client, calls, unit

vars == <<client, calls, unit>>

----------------------------------------------------------------------------
(* Bounds of the model.                                                    *)

\* longest payload value, in characters
MaxValLen == 1
\* longest endpoint handed directly to build_signature_format
MaxEndpointLen == 1

----------------------------------------------------------------------------
(* Strings.                                                                *)

RECURSIVE StringsUpTo(_, _)
StringsUpTo(alphabet, n) ==
    IF n = 0 THEN {<<>>}
    ELSE LET shorter == StringsUpTo(alphabet, n - 1)
         IN shorter \cup {Append(s, ch) : s \in shorter, ch \in alphabet}

IsPrefix(p, s) == Len(p) <= Len(s) /\ SubSeq(s, 1, Len(p)) = p

\* u64::to_string: the decimal digits, most significant first
DigitChar(d) == <<"0", "1", "2", "3", "4", "5", "6", "7", "8", "9">>[d + 1]

RECURSIVE ToString(_)
ToString(n) ==
    IF n < 10 THEN <<DigitChar(n)>>
    ELSE Append(ToString(n \div 10), DigitChar(n % 10))

\* the byte of a character that occurs in a payload key
CharCode(ch) ==
    CASE ch = "a" -> 97
      [] ch = "b" -> 98
      [] ch = "c" -> 99

\* Ord for String: byte-wise lexicographic, a proper prefix first
RECURSIVE StrLess(_, _)
StrLess(s, t) ==
    IF t = <<>> THEN FALSE
    ELSE IF s = <<>> THEN TRUE
    ELSE IF Head(s) = Head(t) THEN StrLess(Tail(s), Tail(t))
    ELSE CharCode(Head(s)) < CharCode(Head(t))

\* str::split("/"): the pieces between the separators, empty pieces kept
RECURSIVE SplitSlash(_)
SplitSlash(s) ==
    IF \A i \in 1..Len(s) : s[i] # "/" THEN <<s>>
    ELSE LET i == CHOOSE j \in 1..Len(s) :
                      s[j] = "/" /\ \A k \in 1..(j - 1) : s[k] # "/"
         IN <<SubSeq(s, 1, i - 1)>> \o SplitSlash(SubSeq(s, i + 1, Len(s)))

----------------------------------------------------------------------------
(* HashMap<String, String>: the entries and the order in which the map     *)
(* iterates over them, which the hasher decides and no caller controls.    *)

Keys == {<<"a">>, <<"b">>}
ValueAlphabet == {"1", "2"}
Values == StringsUpTo(ValueAlphabet, MaxValLen)

Orders(S) ==
    {o \in [1..Cardinality(S) -> S] : \A i, j \in DOMAIN o : i # j => o[i] # o[j]}

Payloads ==
    UNION {{[map |-> m, order |-> o] : m \in [S -> Values], o \in Orders(S)} :
           S \in SUBSET Keys}

EmptyMap == [map |-> [k \in {} |-> <<>>], order |-> <<>>]

\* HashMap::insert on a key already present: the entry changes in place
InsertExisting(p, k, v) == [p EXCEPT !.map[k] = v]

----------------------------------------------------------------------------
(* The clock: SystemTime::now().duration_since(UNIX_EPOCH).                *)

Times == {0, 12}
ClockReads == {[ok |-> TRUE, secs |-> t] : t \in Times}
                  \cup {[ok |-> FALSE, secs |-> 0]}

----------------------------------------------------------------------------
(* Api::new                                                                *)

Origin == "https://api.cryptomkt.com"

ApiKeys == {<<"A", "P", "K">>, <<"A", "LF">>}
SecretKey == <<"S", "K">>

ApiNew(api_key, secret_key) ==
    [api_key |-> api_key,
     secret_key |-> secret_key,
     domain |-> <<Origin, "/">>,
     api_version |-> <<"v", "1">>]

----------------------------------------------------------------------------
(* Api::build_signature_format                                             *)

\* Vec::sort on the keys: insertion into an ascending sequence
RECURSIVE InsertSorted(_, _)
InsertSorted(sorted, k) ==
    IF sorted = <<>> THEN <<k>>
    ELSE IF StrLess(k, Head(sorted)) THEN <<k>> \o sorted
    ELSE <<Head(sorted)>> \o InsertSorted(Tail(sorted), k)

RECURSIVE SortKeysFrom(_, _)
SortKeysFrom(sorted, rest) ==
    IF rest = <<>> THEN sorted
    ELSE SortKeysFrom(InsertSorted(sorted, Head(rest)), Tail(rest))

SortKeysUnsorted(keys) == keys

SortKeys(keys) == SortKeysFrom(<<>>, keys)

RECURSIVE AppendValues(_, _, _)
AppendValues(signature, payload, keys) ==
    IF keys = <<>> THEN signature
    ELSE AppendValues(signature \o payload.map[Head(keys)], payload, Tail(keys))

RECURSIVE AppendKeys(_, _)
AppendKeys(signature, keys) ==
    IF keys = <<>> THEN signature
    ELSE AppendKeys(signature \o Head(keys), Tail(keys))

SignaturePath(api, endpoint, now) ==
    (IF now.ok THEN ToString(now.secs) ELSE <<>>)
        \o <<"/">> \o api.api_version \o <<"/">> \o endpoint

BuildSignatureFormatAnyMethod(api, endpoint, payload, is_get, now) ==
    AppendValues(SignaturePath(api, endpoint, now), payload, SortKeys(payload.order))

BuildSignatureFormatOfKeys(api, endpoint, payload, is_get, now) ==
    IF ~is_get
    THEN AppendKeys(SignaturePath(api, endpoint, now), SortKeys(payload.order))
    ELSE SignaturePath(api, endpoint, now)

BuildSignatureFormat(api, endpoint, payload, is_get, now) ==
    IF ~is_get
    THEN AppendValues(SignaturePath(api, endpoint, now), payload,
                      SortKeys(payload.order))
    ELSE SignaturePath(api, endpoint, now)

----------------------------------------------------------------------------
(* Api::sign_msg.  ring's HMAC-SHA384 is kept symbolic: the hex digest of  *)
(* (key, msg) is the term naming both, so two digests are equal exactly    *)
(* when key and message are.                                               *)

SignMsg(api, msg) ==
    <<"hmac_sha384_hex(">> \o api.secret_key \o <<",">> \o msg \o <<")">>

----------------------------------------------------------------------------
(* Api::build_headers                                                      *)

X_MKT_APIKEY == "X-MKT-APIKEY"
X_MKT_SIGNATURE == "X-MKT-SIGNATURE"
X_MKT_TIMESTAMP == "X-MKT-TIMESTAMP"

\* HeaderMap::new and HeaderMap::insert (an insert replaces the value of a
\* name already present)
HeaderMapNew == [n \in {} |-> <<>>]

HeaderInsert(headers, name, value) ==
    [n \in DOMAIN headers \cup {name} |-> IF n = name THEN value ELSE headers[n]]

\* HeaderValue::from_str is Ok for visible ASCII only; a line feed is refused
IsHeaderValue(s) == \A i \in 1..Len(s) : s[i] # "LF"

Last(s) == s[Len(s)]

BuildHeadersLastSegment(api, endpoint, payload, is_public, is_get, now) ==
    IF is_public
    THEN [panic |-> FALSE, headers |-> HeaderMapNew, msg_to_sign |-> <<>>]
    ELSE LET msg_to_sign == BuildSignatureFormat(api, endpoint, payload, is_get, now)
             timestamp == SplitSlash(msg_to_sign)
             signed == SignMsg(api, msg_to_sign)
         IN IF \/ ~IsHeaderValue(api.api_key)
               \/ ~IsHeaderValue(signed)
               \/ ~IsHeaderValue(Last(timestamp))
            THEN [panic |-> TRUE, headers |-> HeaderMapNew,
                  msg_to_sign |-> msg_to_sign]
            ELSE [panic |-> FALSE,
                  headers |->
                      HeaderInsert(
                          HeaderInsert(
                              HeaderInsert(HeaderMapNew, X_MKT_APIKEY, api.api_key),
                              X_MKT_SIGNATURE, signed),
                          X_MKT_TIMESTAMP, Last(timestamp)),
                  msg_to_sign |-> msg_to_sign]

BuildHeadersSkipInvalid(api, endpoint, payload, is_public, is_get, now) ==
    IF is_public
    THEN [panic |-> FALSE, headers |-> HeaderMapNew, msg_to_sign |-> <<>>]
    ELSE LET msg_to_sign == BuildSignatureFormat(api, endpoint, payload, is_get, now)
             timestamp == SplitSlash(msg_to_sign)
             signed == SignMsg(api, msg_to_sign)
             with_key == IF IsHeaderValue(api.api_key)
                         THEN HeaderInsert(HeaderMapNew, X_MKT_APIKEY, api.api_key)
                         ELSE HeaderMapNew
         IN [panic |-> FALSE,
             headers |->
                 HeaderInsert(HeaderInsert(with_key, X_MKT_SIGNATURE, signed),
                              X_MKT_TIMESTAMP, Head(timestamp)),
             msg_to_sign |-> msg_to_sign]

BuildHeaders(api, endpoint, payload, is_public, is_get, now) ==
    IF is_public
    THEN [panic |-> FALSE, headers |-> HeaderMapNew, msg_to_sign |-> <<>>]
    ELSE LET msg_to_sign == BuildSignatureFormat(api, endpoint, payload, is_get, now)
             timestamp == SplitSlash(msg_to_sign)
             signed == SignMsg(api, msg_to_sign)
         IN IF \/ ~IsHeaderValue(api.api_key)
               \/ ~IsHeaderValue(signed)
               \/ ~IsHeaderValue(Head(timestamp))
            THEN \* one of the three unwrap() calls panics
                 [panic |-> TRUE, headers |-> HeaderMapNew,
                  msg_to_sign |-> msg_to_sign]
            ELSE [panic |-> FALSE,
                  headers |->
                      HeaderInsert(
                          HeaderInsert(
                              HeaderInsert(HeaderMapNew, X_MKT_APIKEY, api.api_key),
                              X_MKT_SIGNATURE, signed),
                          X_MKT_TIMESTAMP, Head(timestamp)),
                  msg_to_sign |-> msg_to_sign]

----------------------------------------------------------------------------
(* Api::build_url.  A Url is its origin, its path and its query pairs.     *)
(* Url::join resolves a reference against the base as RFC 3986 does: a     *)
(* reference that begins with "/" replaces the whole path, any other one   *)
(* replaces what follows the last "/" of the base path.  The references    *)
(* modelled are paths: no scheme, "?", "#" or dot segment occurs in them.  *)

UrlParse(text) == [origin |-> Head(text), path |-> Tail(text), query |-> <<>>]

RECURSIVE Directory(_)
Directory(path) ==
    IF path = <<>> \/ Last(path) = "/" THEN path
    ELSE Directory(SubSeq(path, 1, Len(path) - 1))

UrlJoin(url, reference) ==
    IF reference = <<>> THEN url
    ELSE IF Head(reference) = "/"
         THEN [url EXCEPT !.path = reference, !.query = <<>>]
         ELSE [url EXCEPT !.path = Directory(url.path) \o reference, !.query = <<>>]

\* query_pairs_mut().append_pair, once per entry in iteration order; the
\* keys and values modelled are letters and digits, which form encoding
\* leaves as they are
RECURSIVE AppendPairs(_, _, _)
AppendPairs(url, params, keys) ==
    IF keys = <<>> THEN url
    ELSE AppendPairs(
             [url EXCEPT !.query = Append(@, <<Head(keys), params.map[Head(keys)]>>)],
             params, Tail(keys))

BuildUrl(api, endpoint, params) ==
    LET versioned == UrlJoin(UrlParse(api.domain), api.api_version \o <<"/">>)
    IN AppendPairs(UrlJoin(versioned, endpoint), params, params.order)

----------------------------------------------------------------------------
(* CryptoMktErrorType and CryptoMktResult                                  *)

ErrorKinds ==
    {"BadRequest", "MalformedResource", "RequestUnauthorized", "RequestForbidden",
     "RequestNotFound", "RequestMethodNotAllowed", "RequestNotAcceptable",
     "RequestGone", "RequestTeapot", "RequestTooManyRequests",
     "RequestInternalServerError", "RequestServiceUnavailable"}

\* CryptoMktResult<String>
OkText(txt) == [ok |-> TRUE, text |-> txt, err |-> ""]
ErrText(kind) == [ok |-> FALSE, text |-> "", err |-> kind]

\* CryptoMktResult<T>
OkValue(v) == [ok |-> TRUE, value |-> v, err |-> ""]
ErrValue(kind) == [ok |-> FALSE, value |-> "", err |-> kind]

----------------------------------------------------------------------------
(* CryptoMktRequest::translate_errors                                      *)

\* StatusCode holds 100..=999
StatusCodes == 100..999

TranslateErrorsNoTeapot(status) ==
    CASE status = 401 -> "RequestUnauthorized"
      [] status = 403 -> "RequestForbidden"
      [] status = 404 -> "RequestNotFound"
      [] status = 405 -> "RequestMethodNotAllowed"
      [] status = 406 -> "RequestNotAcceptable"
      [] status = 410 -> "RequestGone"
      [] status = 429 -> "RequestTooManyRequests"
      [] status = 500 -> "RequestInternalServerError"
      [] status = 503 -> "RequestServiceUnavailable"
      [] OTHER -> "BadRequest"

TranslateErrors(status) ==
    CASE status = 401 -> "RequestUnauthorized"
      [] status = 403 -> "RequestForbidden"
      [] status = 404 -> "RequestNotFound"
      [] status = 405 -> "RequestMethodNotAllowed"
      [] status = 406 -> "RequestNotAcceptable"
      [] status = 410 -> "RequestGone"
      [] status = 429 -> "RequestTooManyRequests"
      [] status = 500 -> "RequestInternalServerError"
      [] status = 503 -> "RequestServiceUnavailable"
      [] OTHER -> IF status = 418 THEN "RequestTeapot" ELSE "BadRequest"

----------------------------------------------------------------------------
(* The network as the live transport sees it: send() fails, or a response  *)
(* arrives with a status and a body that text() reads or fails to read.    *)
(* The transport reads no body of a response outside 2xx, so those         *)
(* responses carry none here.                                              *)

Bodies ==
    {"{\"data\":[1,2,3]}", "{\"data\":\"x\"}", "{}", "{\"data\":[1,2,"}

SuccessStatuses == {200, 201, 204}
OtherStatuses ==
    {100, 301, 400, 401, 403, 404, 405, 406, 410, 418, 429, 500, 503, 599}

NoResponse == [sent |-> FALSE, status |-> 0, readable |-> FALSE, body |-> ""]

NetOutcomes ==
    {NoResponse}
      \cup {[sent |-> TRUE, status |-> s, readable |-> FALSE, body |-> ""] :
              s \in SuccessStatuses \cup OtherStatuses}
      \cup {[sent |-> TRUE, status |-> s, readable |-> TRUE, body |-> b] :
              s \in SuccessStatuses, b \in Bodies}

----------------------------------------------------------------------------
(* impl HttpRequest for CryptoMktRequest                                   *)

HttpGet(net) ==
    IF net.sent
    THEN IF net.status = 200
         THEN IF net.readable THEN OkText(net.body) ELSE ErrText("MalformedResource")
         ELSE ErrText(TranslateErrors(net.status))
    ELSE ErrText("BadRequest")

HttpPost(net) ==
    IF net.sent
    THEN IF net.status = 200
         THEN IF net.readable THEN OkText(net.body) ELSE ErrText("BadRequest")
         ELSE ErrText(TranslateErrors(net.status))
    ELSE ErrText("BadRequest")

----------------------------------------------------------------------------
(* serde_json::from_str::<T>.  A body is read as JSON text, then matched   *)
(* against the envelope type T the caller expects: a struct with one       *)
(* field, data, that is a list of integers or a string.  Fields T does not *)
(* name are ignored, a missing or differently typed data field is an error.*)

ExpectedTypes == {"DataVecInt", "DataString"}

\* the JSON document a body text holds, if it is JSON at all
JsonParse(text) ==
    CASE text = "{\"data\":[1,2,3]}" ->
             [valid |-> TRUE, has_data |-> TRUE, data_type |-> "array_of_int",
              data |-> "[1,2,3]"]
      [] text = "{\"data\":\"x\"}" ->
             [valid |-> TRUE, has_data |-> TRUE, data_type |-> "string",
              data |-> "x"]
      [] text = "{}" ->
             [valid |-> TRUE, has_data |-> FALSE, data_type |-> "none", data |-> ""]
      [] OTHER ->
             [valid |-> FALSE, has_data |-> FALSE, data_type |-> "none", data |-> ""]

FromStr(T, text) ==
    LET json == JsonParse(text)
        wanted == IF T = "DataVecInt" THEN "array_of_int" ELSE "string"
    IN IF json.valid /\ json.has_data /\ json.data_type = wanted
       THEN [ok |-> TRUE, data |-> json.data]
       ELSE [ok |-> FALSE, data |-> ""]

----------------------------------------------------------------------------
(* Api::get_edge and Api::post_edge.  A call is idle until it is made,     *)
(* awaiting while the transport future is pending, responded once the      *)
(* transport has produced its result, and done when the call has returned; *)
(* it is panicked when build_headers unwound it.                           *)

CallIds == {1}

\* the endpoints of the call sites in client.rs
CallEndpoints ==
    {<<"m", "a", "r", "k", "e", "t">>,
     <<"p", "a", "y", "m", "e", "n", "t", "/", "s", "t", "a", "t", "u", "s">>}

CallValues == {<<"1">>, <<"2">>}
CallPayloads ==
    UNION {{[map |-> m, order |-> o] : m \in [S -> CallValues], o \in Orders(S)} :
           S \in SUBSET Keys}

NoUrl == [origin |-> "", path |-> <<>>, query |-> <<>>]
NoClock == [ok |-> FALSE, secs |-> 0]

IdleCall ==
    [pc |-> "idle", method |-> "", endpoint |-> <<>>, payload |-> EmptyMap,
     is_public |-> FALSE, T |-> "", now |-> NoClock,
     url |-> NoUrl, headers |-> HeaderMapNew, has_form |-> FALSE, form |-> EmptyMap,
     msg_to_sign |-> <<>>, dispatches |-> 0,
     net |-> NoResponse, transport_result |-> ErrText(""),
     decode_attempted |-> FALSE, result |-> ErrValue("")]

\* get_edge up to the await: build_url, build_headers, self.req.get(..)
GetEdgeDispatch(api, endpoint, params, is_public, now) ==
    LET api_url == BuildUrl(api, endpoint, params)
        built == BuildHeaders(api, endpoint, params, is_public, TRUE, now)
    IN [panic |-> built.panic, method |-> "GET", url |-> api_url,
        headers |-> built.headers, has_form |-> FALSE, form |-> EmptyMap,
        msg_to_sign |-> built.msg_to_sign]

PostEdgeDispatchQuery(api, endpoint, payload, now) ==
    LET api_url == BuildUrl(api, endpoint, payload)
        built == BuildHeaders(api, endpoint, payload, FALSE, FALSE, now)
    IN [panic |-> built.panic, method |-> "POST", url |-> api_url,
        headers |-> built.headers, has_form |-> FALSE, form |-> EmptyMap,
        msg_to_sign |-> built.msg_to_sign]

\* post_edge up to the await: build_url, build_headers, self.req.post(..)
PostEdgeDispatch(api, endpoint, payload, now) ==
    LET api_url == BuildUrl(api, endpoint, EmptyMap)
        built == BuildHeaders(api, endpoint, payload, FALSE, FALSE, now)
    IN [panic |-> built.panic, method |-> "POST", url |-> api_url,
        headers |-> built.headers, has_form |-> TRUE, form |-> payload,
        msg_to_sign |-> built.msg_to_sign]

Started(call, endpoint, payload, is_public, T, now, d) ==
    [call EXCEPT !.pc = IF d.panic THEN "panicked" ELSE "awaiting",
                 !.method = d.method, !.endpoint = endpoint, !.payload = payload,
                 !.is_public = is_public, !.T = T, !.now = now,
                 !.url = d.url, !.headers = d.headers,
                 !.has_form = d.has_form, !.form = d.form,
                 !.msg_to_sign = d.msg_to_sign,
                 !.dispatches = IF d.panic THEN @ ELSE @ + 1]

GetEdge(c) ==
    /\ calls[c].pc = "idle"
    /\ \E endpoint \in CallEndpoints, params \in CallPayloads,
          is_public \in BOOLEAN, T \in ExpectedTypes, now \in ClockReads :
          calls' = [calls EXCEPT ![c] =
                       Started(@, endpoint, params, is_public, T, now,
                               GetEdgeDispatch(client, endpoint, params,
                                               is_public, now))]
    /\ UNCHANGED <<client, unit>>

PostEdge(c) ==
    /\ calls[c].pc = "idle"
    /\ \E endpoint \in CallEndpoints, payload \in CallPayloads,
          T \in ExpectedTypes, now \in ClockReads :
          calls' = [calls EXCEPT ![c] =
                       Started(@, endpoint, payload, FALSE, T, now,
                               PostEdgeDispatch(client, endpoint, payload, now))]
    /\ UNCHANGED <<client, unit>>

\* the transport future of a GET completes
TransportGet(c) ==
    /\ calls[c].pc = "awaiting"
    /\ calls[c].method = "GET"
    /\ \E net \in NetOutcomes :
          calls' = [calls EXCEPT ![c].pc = "responded", ![c].net = net,
                                 ![c].transport_result = HttpGet(net)]
    /\ UNCHANGED <<client, unit>>

\* the transport future of a POST completes
TransportPost(c) ==
    /\ calls[c].pc = "awaiting"
    /\ calls[c].method = "POST"
    /\ \E net \in NetOutcomes :
          calls' = [calls EXCEPT ![c].pc = "responded", ![c].net = net,
                                 ![c].transport_result = HttpPost(net)]
    /\ UNCHANGED <<client, unit>>

\* the match on serde_json::from_str
Decoded(call) ==
    LET parsed == FromStr(call.T, call.transport_result.text)
    IN [call EXCEPT !.pc = "done", !.decode_attempted = TRUE,
                    !.result = IF parsed.ok THEN OkValue(parsed.data)
                               ELSE ErrValue("MalformedResource")]

GetEdgeResumeRetry(call) ==
    IF ~call.transport_result.ok
    THEN [call EXCEPT !.pc = "awaiting", !.dispatches = @ + 1]
    ELSE Decoded(call)

\* get_edge from the await on: `?` returns the transport's error as it is
GetEdgeResume(call) ==
    IF ~call.transport_result.ok
    THEN [call EXCEPT !.pc = "done",
                      !.result = ErrValue(call.transport_result.err)]
    ELSE Decoded(call)

PostEdgeResumeParserError(call) ==
    IF ~call.transport_result.ok
    THEN [call EXCEPT !.pc = "done",
                      !.result = ErrValue(call.transport_result.err)]
    ELSE LET parsed == FromStr(call.T, call.transport_result.text)
         IN [call EXCEPT !.pc = "done", !.decode_attempted = TRUE,
                         !.result = IF parsed.ok THEN OkValue(parsed.data)
                                    ELSE ErrValue("BadRequest")]

\* post_edge from the await on
PostEdgeResume(call) ==
    IF ~call.transport_result.ok
    THEN [call EXCEPT !.pc = "done",
                      !.result = ErrValue(call.transport_result.err)]
    ELSE Decoded(call)

GetEdgeReturn(c) ==
    /\ calls[c].pc = "responded"
    /\ calls[c].method = "GET"
    /\ calls' = [calls EXCEPT ![c] = GetEdgeResume(@)]
    /\ UNCHANGED <<client, unit>>

PostEdgeReturn(c) ==
    /\ calls[c].pc = "responded"
    /\ calls[c].method = "POST"
    /\ calls' = [calls EXCEPT ![c] = PostEdgeResume(@)]
    /\ UNCHANGED <<client, unit>>

----------------------------------------------------------------------------
(* The public functions applied on their own: build_signature_format to an *)
(* endpoint, a payload, a method flag and a clock reading, then again      *)
(* within the same second after a value of the payload was replaced; and   *)
(* translate_errors to a status.                                           *)

SigEndpoints == StringsUpTo({"/", "x"}, MaxEndpointLen)

NoUnit ==
    [op |-> "none", endpoint |-> <<>>, payload |-> EmptyMap, is_get |-> FALSE,
     now |-> NoClock, msg |-> <<>>, payload0 |-> EmptyMap, msg0 |-> <<>>,
     status |-> 0, kind |-> ""]

CallBuildSignatureFormat ==
    /\ unit.op = "none"
    /\ \E endpoint \in SigEndpoints, payload \in Payloads,
          is_get \in BOOLEAN, now \in ClockReads :
          LET msg == BuildSignatureFormat(client, endpoint, payload, is_get, now)
          IN unit' = [unit EXCEPT !.op = "build_signature_format",
                                  !.endpoint = endpoint, !.payload = payload,
                                  !.is_get = is_get, !.now = now, !.msg = msg,
                                  !.payload0 = payload, !.msg0 = msg]
    /\ UNCHANGED <<client, calls>>

ChangeValue ==
    /\ unit.op = "build_signature_format"
    /\ \E k \in DOMAIN unit.payload.map, v \in Values :
          /\ v # unit.payload.map[k]
          /\ LET changed == InsertExisting(unit.payload, k, v)
             IN unit' = [unit EXCEPT
                            !.payload = changed,
                            !.msg = BuildSignatureFormat(client, unit.endpoint,
                                                         changed, unit.is_get,
                                                         unit.now)]
    /\ UNCHANGED <<client, calls>>

CallTranslateErrors ==
    /\ unit.op = "none"
    /\ \E status \in StatusCodes :
          unit' = [unit EXCEPT !.op = "translate_errors", !.status = status,
                               !.kind = TranslateErrors(status)]
    /\ UNCHANGED <<client, calls>>

----------------------------------------------------------------------------

Init ==
    /\ client \in {ApiNew(k, SecretKey) : k \in ApiKeys}
    /\ calls = [c \in CallIds |-> IdleCall]
    /\ unit = NoUnit

Next ==
    \E c \in CallIds :
        \/ GetEdge(c)
        \/ PostEdge(c)
        \/ TransportGet(c)
        \/ TransportPost(c)
        \/ GetEdgeReturn(c)
        \/ PostEdgeReturn(c)

Spec == Init /\ [][Next]_vars

NextFn ==
    \/ CallBuildSignatureFormat
    \/ ChangeValue
    \/ CallTranslateErrors

SpecFn == Init /\ [][NextFn]_vars

----------------------------------------------------------------------------
(* Several calls on one client.  Each call is a future of its own: between *)
(* its dispatch and its resumption any other call may take any of its      *)
(* steps, and the caller may drop the future while it is pending, after    *)
(* which the call takes no further step.                                   *)

\* calls in flight on the client
MaxCalls == 2

ConcIds == 1..MaxCalls

ConcEndpoints == {<<"m", "a", "r", "k", "e", "t">>}
ConcPayloads ==
    {EmptyMap, [map |-> [k \in {<<"a">>} |-> <<"1">>], order |-> << <<"a">> >>]}
ConcClockReads == {[ok |-> TRUE, secs |-> 12]}
ConcNetOutcomes ==
    {NoResponse,
     [sent |-> TRUE, status |-> 429, readable |-> FALSE, body |-> ""],
     [sent |-> TRUE, status |-> 200, readable |-> FALSE, body |-> ""],
     [sent |-> TRUE, status |-> 200, readable |-> TRUE, body |-> "{\"data\":[1,2,3]}"]}

ConcGetEdge(c) ==
    /\ calls[c].pc = "idle"
    /\ \E endpoint \in ConcEndpoints, params \in ConcPayloads,
          is_public \in BOOLEAN, now \in ConcClockReads :
          calls' = [calls EXCEPT ![c] =
                       Started(@, endpoint, params, is_public, "DataVecInt", now,
                               GetEdgeDispatch(client, endpoint, params,
                                               is_public, now))]
    /\ UNCHANGED <<client, unit>>

ConcPostEdge(c) ==
    /\ calls[c].pc = "idle"
    /\ \E endpoint \in ConcEndpoints, payload \in ConcPayloads,
          now \in ConcClockReads :
          calls' = [calls EXCEPT ![c] =
                       Started(@, endpoint, payload, FALSE, "DataVecInt", now,
                               PostEdgeDispatch(client, endpoint, payload, now))]
    /\ UNCHANGED <<client, unit>>

ConcTransportGet(c) ==
    /\ calls[c].pc = "awaiting"
    /\ calls[c].method = "GET"
    /\ \E net \in ConcNetOutcomes :
          calls' = [calls EXCEPT ![c].pc = "responded", ![c].net = net,
                                 ![c].transport_result = HttpGet(net)]
    /\ UNCHANGED <<client, unit>>

ConcTransportPost(c) ==
    /\ calls[c].pc = "awaiting"
    /\ calls[c].method = "POST"
    /\ \E net \in ConcNetOutcomes :
          calls' = [calls EXCEPT ![c].pc = "responded", ![c].net = net,
                                 ![c].transport_result = HttpPost(net)]
    /\ UNCHANGED <<client, unit>>

AbandonedAll(cs, c) ==
    [d \in DOMAIN cs |->
        IF cs[d].pc = "awaiting" THEN [cs[d] EXCEPT !.pc = "abandoned"] ELSE cs[d]]

\* the future of call c is dropped at its await
Abandoned(cs, c) == [cs EXCEPT ![c].pc = "abandoned"]

Abandon(c) ==
    /\ calls[c].pc = "awaiting"
    /\ calls' = Abandoned(calls, c)
    /\ UNCHANGED <<client, unit>>

InitConc ==
    /\ client \in {ApiNew(k, SecretKey) : k \in ApiKeys}
    /\ calls = [c \in ConcIds |-> IdleCall]
    /\ unit = NoUnit

NextConc ==
    \E c \in ConcIds :
        \/ ConcGetEdge(c)
        \/ ConcPostEdge(c)
        \/ ConcTransportGet(c)
        \/ ConcTransportPost(c)
        \/ GetEdgeReturn(c)
        \/ PostEdgeReturn(c)
        \/ Abandon(c)

SpecConc == InitConc /\ [][NextConc]_vars

----------------------------------------------------------------------------
(* What the claims expect, written without the operators above.            *)

\* the decimal text of the clock readings of the model
TimestampText(now) ==
    IF ~now.ok THEN <<>>
    ELSE IF now.secs = 0 THEN <<"0">> ELSE <<"1", "2">>

ValueOf(payload, k) ==
    IF k \in DOMAIN payload.map THEN payload.map[k] ELSE <<>>

\* the values in ascending order of the keys: "a" before "b"
ValuesByKey(payload) == ValueOf(payload, <<"a">>) \o ValueOf(payload, <<"b">>)

PathMessage(now, endpoint) ==
    TimestampText(now) \o <<"/">> \o client.api_version \o <<"/">> \o endpoint

ChangedKeys(p, q) == {k \in DOMAIN p.map : p.map[k] # q.map[k]}

HeadersBuilt(c) == calls[c].pc \in {"awaiting", "responded", "done"}
Responded(c) == calls[c].pc \in {"responded", "done"}

AuthHeaderNames == {X_MKT_APIKEY, X_MKT_SIGNATURE, X_MKT_TIMESTAMP}

\* C1: a write signature message is <timestamp>/<api_version>/<endpoint>
\* followed by the payload's values in ascending order of their keys, with no
\* separator, whatever order the map holds its entries in.
C1_WriteMessageIsSortedValues ==
    (unit.op = "build_signature_format" /\ ~unit.is_get)
        => unit.msg = PathMessage(unit.now, unit.endpoint) \o ValuesByKey(unit.payload)

C1_Witness ==
    /\ unit.op = "build_signature_format"
    /\ ~unit.is_get
    /\ unit.payload.order = << <<"b">>, <<"a">> >>
    /\ unit.payload.map[<<"a">>] = <<"1">>
    /\ unit.payload.map[<<"b">>] = <<"2">>
    /\ unit.payload = unit.payload0

\* C2: a GET signature message is exactly <timestamp>/<api_version>/<endpoint>,
\* whatever the payload holds.
C2_GetMessageHasNoValues ==
    (unit.op = "build_signature_format" /\ unit.is_get)
        => unit.msg = PathMessage(unit.now, unit.endpoint)

C2_Witness ==
    /\ unit.op = "build_signature_format"
    /\ unit.is_get
    /\ DOMAIN unit.payload.map = Keys
    /\ unit.payload.map[<<"a">>] # <<>>

\* C3 as stated: with timestamp and endpoint fixed, two payloads with the same
\* keys and different values never give the same write signature message.
C3_AnyChangeChangesMessage ==
    (/\ unit.op = "build_signature_format"
     /\ ~unit.is_get
     /\ unit.payload.map # unit.payload0.map)
        => unit.msg # unit.msg0

\* C3 as amended: with timestamp and endpoint fixed, two payloads with the same
\* keys that differ in the value of exactly one key never give the same write
\* signature message.
C3_OneChangeChangesMessage ==
    (/\ unit.op = "build_signature_format"
     /\ ~unit.is_get
     /\ Cardinality(ChangedKeys(unit.payload, unit.payload0)) = 1)
        => unit.msg # unit.msg0

C3_Witness ==
    /\ unit.op = "build_signature_format"
    /\ ~unit.is_get
    /\ DOMAIN unit.payload.map = Keys
    /\ ChangedKeys(unit.payload, unit.payload0) = {<<"a">>}
    /\ unit.payload0.map[<<"a">>] = <<"1">>
    /\ unit.payload.map[<<"a">>] = <<"2">>
    /\ unit.msg # unit.msg0

\* C4: the headers handed to the transport are empty for a public call; for a
\* private call they are exactly X-MKT-APIKEY (the raw api key), X-MKT-SIGNATURE
\* (the signature of the whole signature message of this call) and
\* X-MKT-TIMESTAMP, which is the text before the first "/" of that message.
C4_PublicEmptyPrivateThree ==
    \A c \in CallIds :
        HeadersBuilt(c) =>
            LET call == calls[c]
                expected == PathMessage(call.now, call.endpoint)
                                \o (IF call.method = "POST"
                                    THEN ValuesByKey(call.payload) ELSE <<>>)
            IN IF call.is_public
               THEN DOMAIN call.headers = {}
               ELSE /\ DOMAIN call.headers = AuthHeaderNames
                    /\ call.msg_to_sign = expected
                    /\ call.headers[X_MKT_APIKEY] = client.api_key
                    /\ call.headers[X_MKT_SIGNATURE] = SignMsg(client, call.msg_to_sign)
                    /\ IsPrefix(call.headers[X_MKT_TIMESTAMP] \o <<"/">>,
                                call.msg_to_sign)
                    /\ \A i \in DOMAIN call.headers[X_MKT_TIMESTAMP] :
                           call.headers[X_MKT_TIMESTAMP][i] # "/"

C4_Witness ==
    \E c \in CallIds :
        /\ calls[c].pc = "awaiting"
        /\ ~calls[c].is_public
        /\ calls[c].method = "POST"
        /\ Len(calls[c].endpoint) > 6
        /\ calls[c].payload.map # <<>>
        /\ calls[c].headers[X_MKT_TIMESTAMP] = <<"1", "2">>

\* C5: translate_errors gives every status exactly the kind of the table, 418
\* the teapot kind, and BadRequest to every status the table does not name.
C5_TranslateErrorsTable ==
    unit.op = "translate_errors" =>
        /\ unit.status \in StatusCodes
        /\ unit.kind \in ErrorKinds
        /\ unit.status = 401 => unit.kind = "RequestUnauthorized"
        /\ unit.status = 403 => unit.kind = "RequestForbidden"
        /\ unit.status = 404 => unit.kind = "RequestNotFound"
        /\ unit.status = 405 => unit.kind = "RequestMethodNotAllowed"
        /\ unit.status = 406 => unit.kind = "RequestNotAcceptable"
        /\ unit.status = 410 => unit.kind = "RequestGone"
        /\ unit.status = 418 => unit.kind = "RequestTeapot"
        /\ unit.status = 429 => unit.kind = "RequestTooManyRequests"
        /\ unit.status = 500 => unit.kind = "RequestInternalServerError"
        /\ unit.status = 503 => unit.kind = "RequestServiceUnavailable"
        /\ unit.status \notin {401, 403, 404, 405, 406, 410, 418, 429, 500, 503}
               => unit.kind = "BadRequest"

C5_Witness ==
    /\ unit.op = "translate_errors"
    /\ unit.status = 418
    /\ unit.kind = "RequestTeapot"

\* C6 as stated: in the live transport, GET or POST, a response with any 2xx
\* status whose body can be read yields that body, and only a status outside
\* 2xx is turned into an error kind.
C6_Any2xxYieldsBody ==
    \A c \in CallIds :
        (Responded(c) /\ calls[c].net.sent /\ calls[c].net.readable
           /\ calls[c].net.status \in 200..299)
            => calls[c].transport_result = OkText(calls[c].net.body)

\* C7: a call dispatches the transport at most once, and when the transport
\* returns an error kind the call returns that kind, without decoding.
C7_FailFast ==
    \A c \in CallIds :
        /\ calls[c].dispatches <= 1
        /\ (calls[c].pc = "done" /\ ~calls[c].transport_result.ok)
               => /\ ~calls[c].result.ok
                  /\ calls[c].result.err = calls[c].transport_result.err
                  /\ ~calls[c].decode_attempted

C7_Witness ==
    \E c \in CallIds :
        /\ calls[c].pc = "done"
        /\ calls[c].net.status = 429
        /\ calls[c].dispatches = 1
        /\ ~calls[c].decode_attempted
        /\ calls[c].result = ErrValue("RequestTooManyRequests")

\* C8: when the transport returns a body, the call returns the decoded value
\* if the body has the shape of the expected type, and MalformedResource, no
\* other kind and no value, if it has not.
C8_DecodeOrMalformed ==
    \A c \in CallIds :
        (calls[c].pc = "done" /\ calls[c].transport_result.ok)
            => LET text == calls[c].transport_result.text
                   T == calls[c].T
               IN /\ calls[c].decode_attempted
                  /\ calls[c].result =
                        IF T = "DataVecInt" /\ text = "{\"data\":[1,2,3]}"
                        THEN [ok |-> TRUE, value |-> "[1,2,3]", err |-> ""]
                        ELSE IF T = "DataString" /\ text = "{\"data\":\"x\"}"
                        THEN [ok |-> TRUE, value |-> "x", err |-> ""]
                        ELSE [ok |-> FALSE, value |-> "", err |-> "MalformedResource"]

C8_Witness ==
    \E c \in CallIds :
        /\ calls[c].pc = "done"
        /\ calls[c].method = "POST"
        /\ calls[c].T = "DataVecInt"
        /\ calls[c].transport_result = OkText("{\"data\":\"x\"}")
        /\ calls[c].result.err = "MalformedResource"

\* C9 as stated: in the live transport a request that cannot be sent, and a
\* response whose body cannot be read, both yield BadRequest, for GET as for
\* POST.
C9_TransportFailureIsBadRequest ==
    \A c \in CallIds :
        (Responded(c)
           /\ (\/ ~calls[c].net.sent
               \/ calls[c].net.status = 200 /\ ~calls[c].net.readable))
            => calls[c].transport_result = ErrText("BadRequest")

\* C10: a GET hands the transport the URL {domain}{api_version}/{endpoint}
\* with one query pair per parameter and no form body; a POST hands it that
\* URL with no query pair and the whole payload as the form body.
C10_ParametersInOnePlace ==
    \A c \in CallIds :
        HeadersBuilt(c) =>
            LET call == calls[c]
            IN /\ <<call.url.origin>> \o call.url.path
                      = client.domain \o client.api_version \o <<"/">> \o call.endpoint
               /\ IF call.method = "GET"
                  THEN /\ ~call.has_form
                       /\ Len(call.url.query) = Cardinality(DOMAIN call.payload.map)
                       /\ \A k \in DOMAIN call.payload.map :
                              \E i \in DOMAIN call.url.query :
                                  call.url.query[i] = <<k, call.payload.map[k]>>
                  ELSE /\ call.url.query = <<>>
                       /\ call.has_form
                       /\ call.form = call.payload

C10_Witness ==
    \E c \in CallIds :
        /\ calls[c].pc = "awaiting"
        /\ calls[c].method = "POST"
        /\ DOMAIN calls[c].payload.map = Keys
        /\ calls[c].url.query = <<>>
        /\ calls[c].form = calls[c].payload

HasDoubleSlash(s) == \E i \in 1..(Len(s) - 1) : s[i] = "/" /\ s[i + 1] = "/"

\* C12 as stated: whatever the endpoint, one that begins with "/" included,
\* the signature message holds no "//".
C12_NoDoubleSlash ==
    unit.op = "build_signature_format" => ~HasDoubleSlash(unit.msg)

\* C13: a private call made with an api key that is no valid header value is
\* aborted while its headers are built: the transport is never invoked for
\* it, and no call is ever dispatched with only some of the three auth
\* headers.
C13_FailClosed ==
    \A c \in CallIds :
        /\ (/\ calls[c].pc # "idle"
            /\ ~calls[c].is_public
            /\ \E i \in DOMAIN client.api_key : client.api_key[i] = "LF")
               => /\ calls[c].pc = "panicked"
                  /\ calls[c].dispatches = 0
                  /\ calls[c].net = NoResponse
                  /\ calls[c].transport_result = ErrText("")
        /\ calls[c].dispatches > 0
               => DOMAIN calls[c].headers \in {{}, AuthHeaderNames}

C13_Witness ==
    \E c \in CallIds :
        /\ calls[c].pc = "panicked"
        /\ calls[c].method = "POST"
        /\ client.api_key = <<"A", "LF">>
        /\ calls[c].dispatches = 0

\* what call c holds is what its own arguments and its own transport response
\* give, whatever the other calls did
OwnArgumentsOnly(c) ==
    LET call == calls[c]
        is_get == call.method = "GET"
        built == BuildHeaders(client, call.endpoint, call.payload,
                              call.is_public, is_get, call.now)
    IN /\ call.pc = "idle" => call = IdleCall
       /\ call.pc # "idle" =>
              /\ call.url = BuildUrl(client, call.endpoint,
                                     IF is_get THEN call.payload ELSE EmptyMap)
              /\ call.headers = built.headers
              /\ call.pc = "panicked" <=> built.panic
       /\ call.pc \in {"idle", "panicked", "awaiting", "abandoned"} =>
              /\ call.net = NoResponse
              /\ call.result = ErrValue("")
       /\ call.pc \in {"responded", "done"} =>
              call.transport_result =
                  IF is_get THEN HttpGet(call.net) ELSE HttpPost(call.net)
       /\ call.pc = "done" =>
              call.result =
                  IF ~call.transport_result.ok
                  THEN ErrValue(call.transport_result.err)
                  ELSE IF call.transport_result.text = "{\"data\":[1,2,3]}"
                  THEN OkValue("[1,2,3]")
                  ELSE ErrValue("MalformedResource")

\* C11: under every interleaving of the calls on one client, abandoned calls
\* included, the client's api_key, secret_key, domain and api_version never
\* change, a step of one call changes no other call, and every call holds
\* the URL, headers and result that its own arguments and its own transport
\* response give.
C11_CallsAreIsolated ==
    /\ [](\A c \in ConcIds : OwnArgumentsOnly(c))
    /\ [][/\ client' = client
          /\ \A c, d \in ConcIds :
                 (c # d /\ calls'[c] # calls[c]) => calls'[d] = calls[d]]_vars

C11_Witness ==
    \E c, d \in ConcIds :
        /\ calls[c].pc = "abandoned"
        /\ ~calls[c].is_public
        /\ calls[d].pc = "done"
        /\ calls[d].method = "POST"
        /\ calls[d].payload # calls[c].payload
        /\ calls[d].result = OkValue("[1,2,3]")

====
